---- MODULE Spec2Model ----
(***************************************************************************)
(* Model of the qthread cooperative threading library (src/src/qthread.c)  *)
(* together with the client programs that drive it (the host "main" of     *)
(* src/src/qthread.c:265-307 and of src/unnamed/part_001, and the thread   *)
(* functions worker_thread / thread_function).                             *)
(*                                                                         *)
(* There is a single flow of control.  `running' names the flow that       *)
(* executes, pc[r] its position; a context switch changes `running'.       *)
(* Record 0 is the host's own record (main_thread, a stack variable);      *)
(* records 1..MaxThreads are the records malloc'ed by qthread_create.      *)
(***************************************************************************)
EXTENDS Integers, Sequences, FiniteSets, TLC

\* ---------------------------------------------------------------- bounds
MaxThreads == 2
MaxYields == 1
MaxValue == 1

\* -------------------------------------------------------------- constants
NULL == -1
Exited == -2
NoValue == -3
NullValue == 0
HostRec == 0
CreateOk == 0
CreateFailed == -1
DefaultStackSize == 65536
ExampleStackSize == 131072

Recs == 0..MaxThreads
Workers == 1..MaxThreads
Values == 0..MaxValue
StackSizes == {DefaultStackSize, ExampleStackSize}

VARIABLES
    thread_list,  \* head of the circular list (a record or NULL)
    current,      \* the library's current pointer (a record or NULL)
    state,        \* state[r]   : "NONE" (not allocated), "READY", "RUNNING", "FINISHED"
    next,         \* next[r]    : the record's next link
    retval,       \* retval[r]  : the record's result slot (NoValue = never written)
    stack,        \* stack[r]   : "none", "null", "alloc", "freed"
    context,      \* context[0] : the resume point saved in the host's record
    running,      \* the flow that executes (0 = host, a worker, or Exited)
    pc,           \* pc[r]      : position of flow r
    jtarget,      \* the handle the host is joining
    handles,      \* handles the host holds and has not joined
    nalloc,       \* number of records qthread_create has allocated
    yields,       \* yields[r]  : number of yields thread r has made
    joined,       \* history: records unregistered and freed by a join
    exitarg,      \* history: argument of the first qthread_exit of r
    calledexit,   \* history: threads whose start function called qthread_exit
    joinres,      \* history: the value join stored in *retval for r
    nfree,        \* history: number of times r's stack buffer was freed
    exitret,      \* history: threads in which a qthread_exit call returned
    hsched,       \* history: number of qscheduler() calls of the host (capped)
    log,          \* history: records dispatched since the registry last changed
    stack_size,   \* the global default stack size
    ssize,        \* ssize[r]  : size of r's stack buffer (0 = no buffer)
    createret,    \* history: what the host's last call returned, when that
                  \* call was qthread_create (NoValue otherwise)
    wtarget       \* wtarget[t] : the handle thread t is joining (or NULL)

vars == <<thread_list, current, state, next, retval, stack, context, running,
          pc, jtarget, handles, nalloc, yields, joined, exitarg, calledexit,
          joinres, nfree, exitret, hsched, log, stack_size, ssize, createret,
          wtarget>>

\* ------------------------------------------------------------- registry
\* The records met when following next from r, r included.
RECURSIVE Chain(_, _, _)
Chain(r, nx, fuel) ==
    IF r = NULL \/ fuel = 0 THEN {}
    ELSE {r} \cup Chain(nx[r], nx, fuel - 1)

\* The registry: every record reachable from the head.
Registry(tl, nx) == Chain(tl, nx, MaxThreads + 1)

Reg == Registry(thread_list, next)

\* ------------------------------------------------------------ scheduler
Hang == -4

\* The scan loops of qscheduler: starting at t, follow next until a READY
\* record or `stop' is met.  A chain that never comes back to `stop' keeps
\* the loop running for ever (Hang).
RECURSIVE ScanReady(_, _, _, _, _)
ScanReady(t, stop, st, nx, fuel) ==
    IF t = stop THEN stop
    ELSE IF st[t] = "READY" THEN t
    ELSE IF fuel = 0 THEN Hang
    ELSE ScanReady(nx[t], stop, st, nx, fuel - 1)

\* Initial call (current == NULL): do-while scan from the head.
BootPick(tl, st, nx) ==
    IF st[tl] = "READY" THEN tl
    ELSE ScanReady(nx[tl], tl, st, nx, MaxThreads + 1)

\* Variant of NormalPick: the READY record is chosen by a fixed priority
\* (the lowest record other than current), not by its position after current.
NormalPick_FixedPriority(cur, st, nx) ==
    LET c == {r \in Chain(cur, nx, MaxThreads + 1) : r # cur /\ st[r] = "READY"}
    IN  IF c = {}
        THEN (IF st[cur] = "READY" THEN cur ELSE NULL)
        ELSE CHOOSE r \in c : \A q \in c : r <= q

\* Variant of NormalPick: the scan stops at the head of the list, so the
\* head is never chosen.
NormalPick_SkipsHead(cur, st, nx) ==
    LET t == ScanReady(nx[cur], cur, st, nx, MaxThreads + 1)
    IN  IF t = Hang THEN Hang
        ELSE IF st[t] # "READY" \/ t = thread_list
             THEN (IF st[cur] = "READY" THEN cur ELSE NULL)
             ELSE t

\* Variant of NormalPick: when no record is READY the head of the list is
\* taken instead of returning.
NormalPick_FallbackHead(cur, st, nx) ==
    LET t == ScanReady(nx[cur], cur, st, nx, MaxThreads + 1)
    IN  IF t = Hang THEN Hang
        ELSE IF st[t] # "READY"
             THEN (IF st[cur] = "READY" THEN cur ELSE thread_list)
             ELSE t

\* Variant of NormalPick: the scan starts one record too far.
NormalPick_FromSecond(cur, st, nx) ==
    LET t == ScanReady(nx[nx[cur]], cur, st, nx, MaxThreads + 1)
    IN  IF t = Hang THEN Hang
        ELSE IF st[t] # "READY"
             THEN (IF st[cur] = "READY" THEN cur ELSE NULL)
             ELSE t

\* Variant of NormalPick: the record after current is taken whatever its
\* state.
NormalPick_AnyRecord(cur, st, nx) == nx[cur]

\* Normal case: scan from current->next; fall back to current when it is
\* READY; NULL stands for the `return' of line 75.
NormalPick(cur, st, nx) ==
    LET t == ScanReady(nx[cur], cur, st, nx, MaxThreads + 1)
    IN  IF t = Hang THEN Hang
        ELSE IF st[t] # "READY"
             THEN (IF st[cur] = "READY" THEN cur ELSE NULL)
             ELSE t

\* Variant of SchedTarget: the test of line 45 is missing and the host's
\* record is taken for the head of an empty list.
SchedTarget_NoEmptyCheck(tl, cur, st, nx) ==
    IF tl = NULL THEN HostRec
    ELSE IF cur = NULL
         THEN LET t == BootPick(tl, st, nx)
              IN  IF t = Hang THEN Hang
                  ELSE IF st[t] # "READY" THEN NULL ELSE t
         ELSE LET t == NormalPick(cur, st, nx)
              IN  IF t = Hang THEN Hang
                  ELSE IF t = NULL \/ t = cur THEN NULL ELSE t

\* The record qscheduler transfers control to; NULL when it returns to its
\* caller without a transfer.
SchedTarget(tl, cur, st, nx) ==
    IF tl = NULL THEN NULL
    ELSE IF cur = NULL
         THEN LET t == BootPick(tl, st, nx)
              IN  IF t = Hang THEN Hang
                  ELSE IF st[t] # "READY" THEN NULL ELSE t
         ELSE LET t == NormalPick(cur, st, nx)
              IN  IF t = Hang THEN Hang
                  ELSE IF t = NULL \/ t = cur THEN NULL ELSE t

\* Where a flow continues when its saved context is resumed.
Resume(ctx) ==
    CASE ctx = "entry" -> "body"
      [] ctx = "yield" -> "body"
      [] ctx = "exitU" -> "exitret"
      [] ctx = "exitW" -> "wrapret"
      [] ctx = "adopt" -> "adopt1"
      [] ctx = "sched" -> "main"
      [] ctx = "join"  -> "join"
      [] ctx = "wjoin" -> "wjoin"
      [] ctx = "wjoinx" -> "wjoinx"
      [] OTHER         -> "lost"

LogLen == MaxThreads + 2

Append1(l, t) ==
    LET l2 == Append(l, t)
    IN  IF Len(l2) > LogLen THEN SubSeq(l2, 2, Len(l2)) ELSE l2

\* Variant of DispatchCurrent: the assignment of line 90 is missing.
DispatchCurrent_KeepsCurrent(t, cur) == IF cur = NULL THEN t ELSE cur

\* Lines 86 and 90: current = t.
DispatchCurrent(t, cur) == t

\* Variant of DispatchState: the record entered is marked RUNNING and the
\* record that is left keeps its state.
DispatchState_MarksRunning(t, st) == [st EXCEPT ![t] = "RUNNING"]

\* The thread states after control was transferred to t: lines 84-92 assign
\* no state, neither to the record that is left nor to the one entered.
DispatchState(t, st) == st

\* qscheduler() called by flow `me'.  `sus' is the point of the call (the
\* context swapcontext saves), `ret' the position after the call, st the
\* thread states at the time of the call.
Qscheduler(me, sus, ret, st, lg) ==
    LET t == SchedTarget(thread_list, current, st, next)
    IN  IF t = Hang
        THEN /\ pc' = [pc EXCEPT ![me] = "hung"]
             /\ log' = lg
             /\ state' = st
             /\ UNCHANGED <<current, running, context>>
        ELSE IF t = NULL
        THEN /\ pc' = [pc EXCEPT ![me] = ret]
             /\ log' = lg
             /\ state' = st
             /\ UNCHANGED <<current, running, context>>
        ELSE IF current = NULL
        THEN \* initial switch: setcontext, the caller's context is not saved
             /\ current' = DispatchCurrent(t, current)
             /\ state' = DispatchState(t, st)
             /\ running' = t
             /\ pc' = [[pc EXCEPT ![me] = "lost"] EXCEPT ![t] = Resume(context[t])]
             /\ log' = Append1(lg, t)
             /\ UNCHANGED context
        ELSE \* swapcontext(&prev->context, &current->context)
             /\ current' = DispatchCurrent(t, current)
             /\ state' = DispatchState(t, st)
             /\ running' = t
             /\ context' = [context EXCEPT ![current] = sus]
             /\ pc' = [[pc EXCEPT ![me] = sus] EXCEPT ![t] = Resume(context[t])]
             /\ log' = Append1(lg, t)

\* ----------------------------------------------------------------- Init
Init ==
    /\ thread_list = NULL
    /\ current = NULL
    /\ state = [r \in Recs |-> "NONE"]
    /\ next = [r \in Recs |-> NULL]
    /\ retval = [r \in Recs |-> NoValue]
    /\ stack = [r \in Recs |-> "none"]
    /\ context = [r \in Recs |-> "none"]
    /\ running = HostRec
    /\ pc = [r \in Recs |-> IF r = HostRec THEN "main" ELSE "none"]
    /\ jtarget = NULL
    /\ handles = {}
    /\ nalloc = 0
    /\ yields = [r \in Recs |-> 0]
    /\ joined = {}
    /\ exitarg = [r \in Recs |-> NoValue]
    /\ calledexit = {}
    /\ joinres = [r \in Recs |-> NoValue]
    /\ nfree = [r \in Recs |-> 0]
    /\ exitret = {}
    /\ hsched = 0
    /\ log = <<>>
    /\ stack_size = DefaultStackSize
    /\ ssize = [r \in Recs |-> 0]
    /\ createret = NoValue
    /\ wtarget = [r \in Recs |-> NULL]

\* ----------------------------------------------------- host: adoption
\* main, line 268: getcontext(&main_thread.context).
HostGetContext ==
    /\ running = HostRec
    /\ pc[HostRec] = "main"
    /\ context[HostRec] = "none"
    /\ nalloc = 0
    /\ hsched = 0
    /\ context' = [context EXCEPT ![HostRec] = "adopt"]
    /\ pc' = [pc EXCEPT ![HostRec] = "adopt1"]
    /\ UNCHANGED <<thread_list, current, state, next, retval, stack, running,
                   jtarget, handles, nalloc, yields, joined, exitarg,
                   calledexit, joinres, nfree, exitret, hsched, log>>
    /\ createret' = NoValue
    /\ UNCHANGED <<stack_size, ssize>>
    /\ UNCHANGED wtarget

\* main, lines 272-275: the host's record becomes the whole registry.  The
\* statements run again each time the context saved at line 268 is resumed;
\* the handle variables of the host are then written anew by the creations
\* that follow.
HostRegister ==
    /\ running = HostRec
    /\ pc[HostRec] = "adopt1"
    /\ state' = [state EXCEPT ![HostRec] = "READY"]
    /\ stack' = [stack EXCEPT ![HostRec] = "null"]
    /\ next' = [next EXCEPT ![HostRec] = HostRec]
    /\ thread_list' = HostRec
    /\ pc' = [pc EXCEPT ![HostRec] = "main"]
    /\ handles' = {}
    /\ log' = <<>>
    /\ UNCHANGED <<current, retval, context, running, jtarget, nalloc, yields,
                   joined, exitarg, calledexit, joinres, nfree, exitret, hsched>>
    /\ createret' = NoValue
    /\ UNCHANGED <<stack_size, ssize>>
    /\ UNCHANGED wtarget

\* ------------------------------------------------------ qthread_create
\* The record whose next is the head (the while loop of lines 160-161).
RECURSIVE LastRec(_, _, _, _)
LastRec(temp, tl, nx, fuel) ==
    IF nx[temp] = tl \/ fuel = 0 THEN temp
    ELSE LastRec(nx[temp], tl, nx, fuel - 1)

\* Lines 153-164: insertion in the circular list.
InsertHead(t, tl) == IF tl = NULL THEN t ELSE tl

InsertNext(t, tl, nx) ==
    IF tl = NULL
    THEN [nx EXCEPT ![t] = t]
    ELSE [nx EXCEPT ![LastRec(tl, tl, nx, MaxThreads + 1)] = t, ![t] = tl]

\* Variant of CreateStackSize: the buffer always has the default size.
CreateStackSize_Default(ss) == DefaultStackSize

\* Lines 135 and 149: the size of the stack buffer of a new thread.
CreateStackSize(ss) == ss

\* qthread_create(&handle, start_routine, args), the successful path.
HostCreate ==
    /\ running = HostRec
    /\ pc[HostRec] = "main"
    /\ nalloc < MaxThreads
    /\ LET t == nalloc + 1
       IN  /\ state' = [state EXCEPT ![t] = "READY"]
           /\ stack' = [stack EXCEPT ![t] = "alloc"]
           /\ context' = [context EXCEPT ![t] = "entry"]
           /\ pc' = [pc EXCEPT ![t] = "entry"]
           /\ thread_list' = InsertHead(t, thread_list)
           /\ next' = InsertNext(t, thread_list, next)
           /\ handles' = handles \cup {t}
           /\ ssize' = [ssize EXCEPT ![t] = CreateStackSize(stack_size)]
    /\ nalloc' = nalloc + 1
    /\ log' = <<>>
    /\ createret' = CreateOk
    /\ UNCHANGED <<current, retval, running, jtarget, yields, joined, exitarg,
                   calledexit, joinres, nfree, exitret, hsched, stack_size>>
    /\ UNCHANGED wtarget

\* Variant of FailureRegisters: the result of getcontext is tested after
\* the insertion in the list.
FailureRegisters_LateCheck(kind) == kind = "context"

\* Whether a failing qthread_create has inserted its record: the returns of
\* lines 133, 138 and 146 all come before the insertion of lines 153-164;
\* the record and the buffer obtained so far are released.
FailureRegisters(kind) == FALSE

FailureKinds == {"record", "stack", "context"}

\* qthread_create fails: a malloc returns NULL or getcontext returns -1.
HostCreateFail(kind) ==
    /\ running = HostRec
    /\ pc[HostRec] = "main"
    /\ nalloc < MaxThreads
    /\ createret' = CreateFailed
    /\ LET t == nalloc + 1
       IN  IF FailureRegisters(kind)
           THEN /\ state' = [state EXCEPT ![t] = "READY"]
                /\ thread_list' = InsertHead(t, thread_list)
                /\ next' = InsertNext(t, thread_list, next)
                /\ handles' = handles \cup {t}
                /\ nalloc' = nalloc + 1
           ELSE UNCHANGED <<state, thread_list, next, handles, nalloc>>
    /\ UNCHANGED <<current, retval, stack, context, running, pc, jtarget,
                   yields, joined, exitarg, calledexit, joinres, nfree,
                   exitret, hsched, log, stack_size, ssize>>
    /\ UNCHANGED wtarget

\* ----------------------------------------------- qthread_set_stacksize
\* Lines 28-30.  Calls are enumerated while a creation can still follow
\* (nalloc < MaxThreads): stack_size has no other reader than qthread_create.
HostSetStacksize(size) ==
    /\ running = HostRec
    /\ pc[HostRec] = "main"
    /\ nalloc < MaxThreads
    /\ stack_size' = size
    /\ UNCHANGED <<thread_list, current, state, next, retval, stack, context,
                   running, pc, jtarget, handles, nalloc, yields, joined,
                   exitarg, calledexit, joinres, nfree, exitret, hsched, log,
                   ssize>>
    /\ UNCHANGED wtarget
    /\ createret' = NoValue

\* ---------------------------------------------------- host: qscheduler
HostSched ==
    /\ running = HostRec
    /\ pc[HostRec] = "main"
    /\ hsched' = IF hsched < 2 THEN hsched + 1 ELSE hsched
    /\ Qscheduler(HostRec, "sched", "main", state, log)
    /\ UNCHANGED <<thread_list, next, retval, stack, jtarget, handles,
                   nalloc, yields, joined, exitarg, calledexit, joinres, nfree,
                   exitret>>
    /\ createret' = NoValue
    /\ UNCHANGED <<stack_size, ssize>>
    /\ UNCHANGED wtarget

\* -------------------------------------------------------- qthread_join
\* Lines 188-207: the head and the links after `thread' is unregistered.
RECURSIVE FindPrev(_, _, _, _, _, _)
FindPrev(prev, curr, thread, tl, nx, fuel) ==
    IF curr = thread \/ curr = tl \/ fuel = 0 THEN <<prev, curr>>
    ELSE FindPrev(curr, nx[curr], thread, tl, nx, fuel - 1)

\* Variant of UnregNext: the predecessor is not re-linked.
UnregNext_NoRelink(thread, tl, nx) == nx

UnregNext(thread, tl, nx) ==
    IF tl = NULL THEN nx
    ELSE IF tl = nx[tl] /\ tl = thread THEN nx
    ELSE LET pcu == FindPrev(tl, nx[tl], thread, tl, nx, MaxThreads + 1)
         IN  IF pcu[2] = thread
             THEN [nx EXCEPT ![pcu[1]] = nx[pcu[2]]]
             ELSE nx

UnregHead(thread, tl, nx) ==
    IF tl = NULL THEN NULL
    ELSE IF tl = nx[tl] /\ tl = thread THEN NULL
    ELSE LET pcu == FindPrev(tl, nx[tl], thread, tl, nx, MaxThreads + 1)
         IN  IF pcu[2] = thread /\ tl = pcu[2]
             THEN nx[pcu[2]]
             ELSE tl

\* Variant of JoinWaits: the waiting loop is missing.
JoinWaits_NoLoop(t, st) == FALSE

\* Variant of JoinWaits: the loop also stops on a record that is READY.
JoinWaits_StopsOnReady(t, st) == st[t] # "FINISHED" /\ st[t] # "READY"

\* The loop condition of line 182.
JoinWaits(t, st) == st[t] # "FINISHED"

\* The host calls qthread_join(t, &r) on a handle it holds.
HostJoinCall(t) ==
    /\ running = HostRec
    /\ pc[HostRec] = "main"
    /\ t \in handles
    /\ jtarget' = t
    /\ pc' = [pc EXCEPT ![HostRec] = "join"]
    /\ UNCHANGED <<thread_list, current, state, next, retval, stack, context,
                   running, handles, nalloc, yields, joined, exitarg,
                   calledexit, joinres, nfree, exitret, hsched, log>>
    /\ createret' = NoValue
    /\ UNCHANGED <<stack_size, ssize>>
    /\ UNCHANGED wtarget

\* One iteration of the loop of lines 182-184.
HostJoinWait ==
    /\ running = HostRec
    /\ pc[HostRec] = "join"
    /\ JoinWaits(jtarget, state)
    /\ Qscheduler(HostRec, "join", "join", state, log)
    /\ UNCHANGED <<thread_list, next, retval, stack, jtarget, handles,
                   nalloc, yields, joined, exitarg, calledexit, joinres, nfree,
                   exitret, hsched>>
    /\ createret' = NoValue
    /\ UNCHANGED <<stack_size, ssize>>
    /\ UNCHANGED wtarget

\* Lines 186-212: capture the result, unregister, free, return.
HostJoinFinish ==
    /\ running = HostRec
    /\ pc[HostRec] = "join"
    /\ ~JoinWaits(jtarget, state)
    /\ joinres' = [joinres EXCEPT ![jtarget] = retval[jtarget]]
    /\ thread_list' = UnregHead(jtarget, thread_list, next)
    /\ next' = UnregNext(jtarget, thread_list, next)
    /\ stack' = [stack EXCEPT ![jtarget] = "freed"]
    /\ nfree' = [nfree EXCEPT ![jtarget] = @ + 1]
    /\ joined' = joined \cup {jtarget}
    /\ handles' = handles \ {jtarget}
    /\ jtarget' = NULL
    /\ pc' = [pc EXCEPT ![HostRec] = "main"]
    /\ log' = <<>>
    /\ UNCHANGED <<current, state, retval, context, running, nalloc, yields,
                   exitarg, calledexit, exitret, hsched>>
    /\ createret' = NoValue
    /\ UNCHANGED <<stack_size, ssize>>
    /\ UNCHANGED wtarget

\* main returns: the process ends.
HostReturn ==
    /\ running = HostRec
    /\ pc[HostRec] = "main"
    /\ running' = Exited
    /\ pc' = [pc EXCEPT ![HostRec] = "returned"]
    /\ UNCHANGED <<thread_list, current, state, next, retval, stack, context,
                   jtarget, handles, nalloc, yields, joined, exitarg,
                   calledexit, joinres, nfree, exitret, hsched, log>>
    /\ createret' = NoValue
    /\ UNCHANGED <<stack_size, ssize>>
    /\ UNCHANGED wtarget

\* ------------------------------------------------------------- threads
\* A thread function yields: qscheduler() (worker_thread line 243,
\* thread_function line 23).
ThreadYield(t) ==
    /\ running = t
    /\ pc[t] \in {"body", "exitret"}
    /\ yields[t] < MaxYields
    /\ yields' = [yields EXCEPT ![t] = @ + 1]
    /\ Qscheduler(t, "yield", pc[t], state, log)
    /\ UNCHANGED <<thread_list, next, retval, stack, jtarget, handles,
                   nalloc, joined, exitarg, calledexit, joinres, nfree,
                   exitret, hsched>>
    /\ UNCHANGED <<stack_size, ssize, createret>>
    /\ UNCHANGED wtarget

\* Variant of ExitRetval: the value is dropped and NULL is stored.
ExitRetval_DropsValue(t, v, rv) == [rv EXCEPT ![t] = NullValue]

\* Lines 103-104 of qthread_exit.
ExitRetval(t, v, rv) == [rv EXCEPT ![t] = v]

ExitState(t, st) == [st EXCEPT ![t] = "FINISHED"]

\* qthread_exit(v): store, mark FINISHED, call the scheduler.
QthreadExit(t, v, sus, ret) ==
    /\ retval' = ExitRetval(t, v, retval)
    /\ Qscheduler(t, sus, ret, ExitState(t, state), <<>>)
    /\ exitarg' = IF exitarg[t] = NoValue
                  THEN [exitarg EXCEPT ![t] = v] ELSE exitarg
    /\ exitret' = IF pc'[t] = ret THEN exitret \cup {t} ELSE exitret

\* The thread function calls qthread_exit(v).
ThreadExit(t, v) ==
    /\ running = t
    /\ pc[t] = "body"
    /\ QthreadExit(t, v, "exitU", "exitret")
    /\ calledexit' = calledexit \cup {t}
    /\ UNCHANGED <<thread_list, next, stack, jtarget, handles, nalloc, yields,
                   joined, joinres, nfree, hsched>>
    /\ UNCHANGED <<stack_size, ssize, createret>>
    /\ UNCHANGED wtarget

\* Variant of WrapperValue: the wrapper exits with a non-NULL value.
WrapperValue_NonNull == NullValue + 1

\* The value qthread_wrapper exits with (line 118).
WrapperValue == NullValue

\* The thread function returns to qthread_wrapper, which calls
\* qthread_exit(NULL).
ThreadReturn(t) ==
    /\ running = t
    /\ pc[t] \in {"body", "exitret"}
    /\ QthreadExit(t, WrapperValue, "exitW", "wrapret")
    /\ UNCHANGED <<thread_list, next, stack, jtarget, handles, nalloc, yields,
                   joined, calledexit, joinres, nfree, hsched>>
    /\ UNCHANGED <<stack_size, ssize, createret>>
    /\ UNCHANGED wtarget

\* qthread_wrapper returns; uc_link is NULL (line 150): the process ends.
WrapperReturn(t) ==
    /\ running = t
    /\ pc[t] = "wrapret"
    /\ running' = Exited
    /\ pc' = [pc EXCEPT ![t] = "done"]
    /\ UNCHANGED <<thread_list, current, state, next, retval, stack, context,
                   jtarget, handles, nalloc, yields, joined, exitarg,
                   calledexit, joinres, nfree, exitret, hsched, log>>
    /\ UNCHANGED <<stack_size, ssize, createret>>
    /\ UNCHANGED wtarget

\* ------------------------------------------- qthread_join by a thread
\* A thread function calls qthread_join(u, &r) on a handle that nobody else
\* joins: lines 179-181.
ThreadJoinCall(t, u) ==
    /\ running = t
    /\ pc[t] \in {"body", "exitret"}
    /\ u \in (1..nalloc) \ joined
    /\ u # jtarget
    /\ \A w \in Recs : wtarget[w] # u
    /\ wtarget' = [wtarget EXCEPT ![t] = u]
    /\ handles' = handles \ {u}
    /\ pc' = [pc EXCEPT ![t] = IF pc[t] = "body" THEN "wjoin" ELSE "wjoinx"]
    /\ UNCHANGED <<thread_list, current, state, next, retval, stack, context,
                   running, jtarget, nalloc, yields, joined, exitarg,
                   calledexit, joinres, nfree, exitret, hsched, log,
                   stack_size, ssize, createret>>

\* One iteration of the loop of lines 182-184, run by a thread.
ThreadJoinWait(t) ==
    /\ running = t
    /\ pc[t] \in {"wjoin", "wjoinx"}
    /\ JoinWaits(wtarget[t], state)
    /\ Qscheduler(t, pc[t], pc[t], state, log)
    /\ UNCHANGED <<thread_list, next, retval, stack, jtarget, handles,
                   nalloc, yields, joined, exitarg, calledexit, joinres, nfree,
                   exitret, hsched, stack_size, ssize, createret, wtarget>>

\* What a flow does after free() released the stack it runs on (lines
\* 209-210 with thread == current): the behaviour is undefined, the call
\* may return or the process may end.
FreedStackOutcomes == {"returns", "crashes"}

\* Lines 186-212 run by a thread: capture the result, unregister, free,
\* return.
ThreadJoinFinish(t) ==
    /\ running = t
    /\ pc[t] \in {"wjoin", "wjoinx"}
    /\ ~JoinWaits(wtarget[t], state)
    /\ LET u == wtarget[t]
           back == IF pc[t] = "wjoin" THEN "body" ELSE "exitret"
       IN  /\ joinres' = [joinres EXCEPT ![u] = retval[u]]
           /\ thread_list' = UnregHead(u, thread_list, next)
           /\ next' = UnregNext(u, thread_list, next)
           /\ stack' = [stack EXCEPT ![u] = "freed"]
           /\ nfree' = [nfree EXCEPT ![u] = @ + 1]
           /\ joined' = joined \cup {u}
           /\ \E o \in FreedStackOutcomes :
                 IF u # t \/ o = "returns"
                 THEN /\ pc' = [pc EXCEPT ![t] = back]
                      /\ running' = running
                 ELSE /\ pc' = [pc EXCEPT ![t] = "crashed"]
                      /\ running' = Exited
    /\ wtarget' = [wtarget EXCEPT ![t] = NULL]
    /\ log' = <<>>
    /\ UNCHANGED <<current, state, retval, context, jtarget, handles, nalloc,
                   yields, exitarg, calledexit, exitret, hsched, stack_size,
                   ssize, createret>>

\* ----------------------------------------------------------------- Next
Next ==
    \/ HostGetContext
    \/ HostRegister
    \/ HostCreate
    \/ \E kind \in FailureKinds : HostCreateFail(kind)
    \/ HostSched
    \/ \E t \in Workers : HostJoinCall(t)
    \/ HostJoinWait
    \/ HostJoinFinish
    \/ HostReturn
    \/ \E t \in Workers : ThreadYield(t)
    \/ \E t \in Workers, v \in Values : ThreadExit(t, v)
    \/ \E t \in Workers : ThreadReturn(t)
    \/ \E t \in Workers : WrapperReturn(t)

Spec == Init /\ [][Next]_vars

\* ------------------------------------------------------- type invariant
TypeOK ==
    /\ thread_list \in Recs \cup {NULL}
    /\ current \in Recs \cup {NULL}
    /\ state \in [Recs -> {"NONE", "READY", "RUNNING", "FINISHED"}]
    /\ next \in [Recs -> Recs \cup {NULL}]
    /\ retval \in [Recs -> Values \cup {NoValue}]
    /\ running \in Recs \cup {Exited}
    /\ handles \subseteq Workers
    /\ nalloc \in 0..MaxThreads
    /\ Len(log) <= LogLen

\* The flow that executes is the one the library calls current.
RunningIsCurrent ==
    (current # NULL /\ running # Exited) => running = current

NoHang == \A r \in Recs : pc[r] # "hung"

\* =============================================================== claims

C2_JoinAfterFinished ==
    [][\A r \in Recs :
          (\/ (r \in joined' /\ r \notin joined)
           \/ joinres'[r] # joinres[r]
           \/ stack'[r] # stack[r] /\ stack'[r] = "freed"
           \/ (jtarget = r /\ pc[HostRec] = "join" /\ pc'[HostRec] = "main"))
          => state[r] = "FINISHED"]_vars

\* A thread that yielded, so that the join had to wait for it, was joined.
C2_Witness ==
    \E r \in joined : yields[r] > 0 /\ state[r] = "FINISHED"

\* C3 - qthread_exit never returns to its caller.
C3_ExitNeverReturns == exitret = {}

\* C4 - A thread whose start function returned without calling
\* qthread_exit is left as qthread_exit(NULL) leaves a thread: FINISHED with
\* a NULL result, and a join on it returns NULL.
C4_ReturnIsExitNull ==
    \A t \in Workers :
        (exitarg[t] # NoValue /\ (t \notin calledexit \/ exitarg[t] = NullValue))
        => /\ state[t] = "FINISHED"
           /\ retval[t] = NullValue
           /\ (t \in joined => joinres[t] = NullValue)

\* A thread that returned without calling qthread_exit was joined, next to
\* one that called qthread_exit(NULL).
C4_Witness ==
    \E t \in joined, u \in Workers :
        /\ t \notin calledexit
        /\ joinres[t] = NullValue
        /\ u \in calledexit
        /\ exitarg[u] = NullValue
        /\ state[u] = "FINISHED"

\* C5 - Fairness: while the N registered records are all READY (nothing was
\* created, exited or joined since the log started), every window of N
\* consecutive dispatches contains each of them, and at most N-1 dispatches
\* of other records lie between two dispatches of the same record.
AllReady == Reg # {} /\ \A r \in Reg : state[r] = "READY"

C5_Fairness ==
    AllReady =>
        LET n == Cardinality(Reg)
        IN  /\ \A i \in 1..(Len(log) - n + 1) :
                  {log[j] : j \in i..(i + n - 1)} = Reg
            /\ \A i, j \in 1..Len(log) :
                  (i < j /\ log[i] = log[j]
                     /\ \A k \in (i + 1)..(j - 1) : log[k] # log[i])
                  => j - i - 1 <= n - 1

\* Three records, all READY, and more dispatches than records in the log.
C5_Witness ==
    /\ AllReady
    /\ Cardinality(Reg) >= 3
    /\ Len(log) > Cardinality(Reg)

\* C6 - Single-thread completion: the host created one thread, which
\* returned at once without yielding, and invoked qscheduler once (and
\* nothing else): control is back in the host and the thread is FINISHED.
C6_SingleThreadCompletion ==
    (/\ nalloc = 1
     /\ hsched = 1
     /\ handles = {1}
     /\ jtarget = NULL
     /\ yields[1] = 0
     /\ 1 \notin calledexit
     /\ state[1] = "FINISHED")
    => (running = HostRec /\ pc[HostRec] = "main")

\* C7 - A host that never registered itself and joins the threads it
\* created gets every join back: the process does not end while a join of
\* the host is pending.
C7_HostJoinsReturn ==
    (context[HostRec] = "none" /\ running = Exited) => jtarget = NULL

\* C8 (as stated) - after K threads were created and all of them joined,
\* thread_list is NULL.
AllJoined == joined = 1..nalloc

C8_RegistryEmpty ==
    (AllJoined /\ running = HostRec /\ pc[HostRec] = "main")
    => thread_list = NULL

\* C8 (amended) - after K threads were created and all of them joined, no
\* created record is left in the registry: it is empty when the host's
\* record was not registered, and holds the host's record alone otherwise.
C8_RegistryHostOnly ==
    (AllJoined /\ running = HostRec /\ pc[HostRec] = "main")
    => /\ Reg \cap Workers = {}
       /\ (state[HostRec] = "NONE" => thread_list = NULL)
       /\ (state[HostRec] # "NONE" => Reg = {HostRec})

\* Two threads were created and joined by a registered host.
C8_Witness ==
    /\ AllJoined
    /\ nalloc >= 2
    /\ running = HostRec
    /\ pc[HostRec] = "main"
    /\ thread_list = HostRec

\* C9 - Host resumption: with the host's record in the registry, the step
\* that leaves every other record FINISHED hands control to the host, which
\* continues after its last scheduler call; and unless the host ends the
\* process, this eventually happens.
OthersFinished(st) == \A r \in Reg \ {HostRec} : st[r] = "FINISHED"

C9_HostResumption ==
    /\ [][(/\ HostRec \in Reg
           /\ running \in Workers
           /\ ~OthersFinished(state)
           /\ OthersFinished(state'))
          => (/\ running' = HostRec
              /\ current' = HostRec
              /\ pc[HostRec] \in {"sched", "join"}
              /\ pc'[HostRec] = Resume(pc[HostRec]))]_vars
    /\ []((HostRec \in Reg /\ current # NULL /\ OthersFinished(state)
             /\ running # Exited)
          => (running = HostRec /\ current = HostRec))
    /\ ((HostRec \in Reg /\ running \in Workers)
          ~> (\/ pc[HostRec] = "returned"
              \/ (OthersFinished(state) /\ running = HostRec)))

\* The host is back after its scheduler call and both workers are FINISHED.
C9_Witness ==
    /\ HostRec \in Reg
    /\ Cardinality(Reg) >= 3
    /\ OthersFinished(state)
    /\ running = HostRec
    /\ pc[HostRec] = "main"
    /\ joined = {}
    /\ hsched >= 2

\* C10 - A record's stack buffer is not freed while the record is READY or
\* RUNNING; it is freed once, by the join of its thread.
C10_StackFreedOnceInJoin ==
    /\ [](\A r \in Recs :
            /\ (state[r] \in {"READY", "RUNNING"} => stack[r] # "freed")
            /\ (r \in joined => (nfree[r] = 1 /\ stack[r] = "freed"))
            /\ (r \notin joined => (nfree[r] = 0 /\ stack[r] # "freed")))
    /\ [][\A r \in Recs :
            nfree'[r] # nfree[r]
            => (jtarget = r /\ pc[HostRec] = "join" /\ state[r] = "FINISHED"
                /\ nfree'[r] = nfree[r] + 1)]_vars

\* One stack buffer was freed while another thread is still READY.
C10_Witness ==
    \E r, u \in Workers :
        /\ stack[r] = "freed"
        /\ nfree[r] = 1
        /\ stack[u] = "alloc"
        /\ state[u] = "READY"

\* C11 - A failing qthread_create returns -1 and leaves the registry, the
\* current pointer and the caller's handle variable as they were: no
\* record is registered.
C11_CreateFailureNoEffect ==
    [][createret' = CreateFailed
       => (/\ thread_list' = thread_list
           /\ next' = next
           /\ state' = state
           /\ Registry(thread_list', next') = Reg
           /\ current' = current
           /\ handles' = handles)]_vars

\* A creation failed while the registry held several records and a current
\* thread was established.
C11_Witness ==
    /\ createret = CreateFailed
    /\ Cardinality(Reg) >= 2
    /\ handles # {}
    /\ current # NULL

\* C12 - qscheduler invoked while the registry is empty returns at once and
\* changes neither the registry, nor current, nor any thread's state.
C12_EmptySchedulerNoOp ==
    [][(thread_list = NULL /\ hsched' # hsched)
       => (/\ thread_list' = NULL
           /\ next' = next
           /\ current' = current
           /\ state' = state
           /\ running' = running
           /\ pc' = pc
           /\ context' = context)]_vars

\* The host has called qscheduler with no thread registered and goes on.
C12_Witness ==
    /\ thread_list = NULL
    /\ hsched >= 1
    /\ current = NULL
    /\ running = HostRec
    /\ pc[HostRec] = "main"

\* C13 - Stack-size scoping: qthread_set_stacksize changes the global
\* default and nothing else; a thread created afterwards gets a buffer of
\* that size; the size of a buffer that exists never changes.
C13_StackSizeScoping ==
    /\ [][stack_size' # stack_size
          => (/\ ssize' = ssize
              /\ stack' = stack
              /\ thread_list' = thread_list
              /\ next' = next
              /\ state' = state
              /\ current' = current
              /\ handles' = handles
              /\ nalloc' = nalloc)]_vars
    /\ [][nalloc' # nalloc
          => (/\ stack_size' = stack_size
              /\ ssize'[nalloc'] = stack_size
              /\ \A r \in Recs \ {nalloc'} : ssize'[r] = ssize[r])]_vars
    /\ [][\A r \in Recs : ssize[r] # 0 => ssize'[r] = ssize[r]]_vars

\* A thread created with the larger size keeps it after the default was
\* set back, next to a thread created with the default size.
C13_Witness ==
    \E r, u \in Workers :
        /\ r < u
        /\ ssize[r] = ExampleStackSize
        /\ ssize[u] = DefaultStackSize
        /\ stack_size = DefaultStackSize

\* C14 (as stated) - whenever the scheduler transfers control to a record
\* it makes that record current and sets its state to RUNNING.
C14_DispatchMarksRunning ==
    [][(running' # running /\ running' \in Recs)
       => (current' = running' /\ state'[running'] = "RUNNING")]_vars

\* C14 (amended) - whenever the scheduler transfers control to a record,
\* in the bootstrap case and in the switch case alike, it makes that record
\* current and leaves its state READY; the record qthread_self returns
\* while a thread executes is that thread's record, READY until the thread
\* calls qthread_exit, and never RUNNING.
C14_DispatchMakesCurrent ==
    /\ [][(running' # running /\ running' \in Recs)
          => (/\ current' = running'
              /\ state[running'] = "READY"
              /\ state'[running'] = "READY")]_vars
    /\ [](running \in Workers
          => (/\ current = running
              /\ state[current] \in {"READY", "FINISHED"}
              /\ (state[current] = "FINISHED" => exitarg[current] # NoValue)))

\* A thread entered by a switch (not by the initial setcontext) executes.
C14_Witness ==
    /\ running \in Workers
    /\ current = running
    /\ state[running] = "READY"
    /\ Len(log) >= 2
    /\ pc[running] = "body"

\* C15 - At most one record is RUNNING, and none is before the scheduler
\* has dispatched a thread.
RunningRecs == {r \in Recs : state[r] = "RUNNING"}

C15_AtMostOneRunning ==
    /\ Cardinality(RunningRecs) <= 1
    /\ (current = NULL => RunningRecs = {})

\* Two threads have been entered in turn and both are still registered.
C15_Witness ==
    /\ Cardinality(Reg \cap Workers) >= 2
    /\ \A r \in Reg \cap Workers : pc[r] \in {"body", "yield"}
    /\ running \in Workers
    /\ Cardinality(RunningRecs) <= 1

\* C16 - The result slot of a thread is written at most once.
C16_ResultWrittenOnce ==
    [][\A r \in Recs : retval[r] # NoValue => retval'[r] = retval[r]]_vars

\* C17 - FINISHED is terminal and never dispatched: a FINISHED record keeps
\* its state, and no step makes it current or transfers control to it.
C17_FinishedIsTerminal ==
    [][\A r \in Recs :
          state[r] = "FINISHED"
          => (/\ state'[r] = "FINISHED"
              /\ (current' = r => current = r)
              /\ (running' = r => running = r))]_vars

\* Two dispatches were made past a FINISHED record that is still registered.
C17_Witness ==
    \E r \in Reg \cap Workers :
        /\ state[r] = "FINISHED"
        /\ running \in Recs \ {r}
        /\ Len(log) >= 2
        /\ \A i \in 1..Len(log) : log[i] # r

\* C18 - Between the calls of a host that calls only qthread_create and
\* qthread_join (hsched = 0: no direct call of qscheduler) the registry is empty or a single cycle: following next from the head visits
\* every created and not yet joined record exactly once and comes back to
\* the head, and no joined record is reachable.
RECURSIVE IterNext(_, _, _)
IterNext(r, nx, n) ==
    IF n = 0 \/ r = NULL THEN r ELSE IterNext(nx[r], nx, n - 1)

LiveRecs == (1..nalloc) \ joined

C18_RegistryShape ==
    /\ thread_list # NULL
       => IterNext(thread_list, next, Cardinality(Reg)) = thread_list
    /\ Reg \cap joined = {}

C18_RegistryIsCycleOfLive ==
    (running = HostRec /\ pc[HostRec] = "main" /\ hsched = 0)
    => (C18_RegistryShape /\ LiveRecs \subseteq Reg)

\* The steps in which qscheduler is called.
SchedulerCall ==
    \/ HostSched
    \/ HostJoinWait
    \/ \E t \in Workers : ThreadYield(t)
    \/ \E t \in Workers : \E v \in Values : ThreadExit(t, v)
    \/ \E t \in Workers : ThreadReturn(t)

\* Number of next links from t to r.
RECURSIVE StepsTo(_, _, _, _)
StepsTo(t, r, nx, fuel) ==
    IF t = r THEN 0
    ELSE IF fuel = 0 \/ t = NULL THEN MaxThreads + 2
    ELSE 1 + StepsTo(nx[t], r, nx, fuel - 1)

\* The READY records other than cur on cur's cycle.
OtherReady(cur, st, nx) ==
    {r \in Chain(nx[cur], nx, MaxThreads + 1) \ {cur} : st[r] = "READY"}

\* The READY record nearest to cur->next in the order of the cycle.
FirstReadyAfter(cur, st, nx) ==
    CHOOSE r \in OtherReady(cur, st, nx) :
        \A u \in OtherReady(cur, st, nx) :
            StepsTo(nx[cur], r, nx, MaxThreads + 1)
                <= StepsTo(nx[cur], u, nx, MaxThreads + 1)

\* C19 - Round-robin selection: when current is established and another
\* record is READY, qscheduler transfers control to the first READY record
\* met when following next from the record right after current.
C19_RoundRobin ==
    [][(/\ SchedulerCall
        /\ current # NULL
        /\ OtherReady(current, state', next) # {})
       => (/\ running' = FirstReadyAfter(current, state', next)
           /\ current' = running')]_vars

\* The last dispatch went from a record over a FINISHED one to the READY
\* record behind it.
C19_Witness ==
    /\ Len(log) >= 2
    /\ current = log[Len(log)]
    /\ LET prev == log[Len(log) - 1]
       IN  /\ prev \in Reg
           /\ next[prev] \in Workers
           /\ state[next[prev]] = "FINISHED"
           /\ next[next[prev]] = current
           /\ current # prev

\* The positions at which a call of qscheduler returns to its caller.
ReturnPoints == {"main", "join", "body", "exitret", "wrapret"}

\* C20 - When current is established and no other record is READY,
\* qscheduler switches to nobody and returns to its caller: current, the
\* registry, the saved contexts and every record's state are as they were
\* when it was called (the caller's own state being READY, or FINISHED when
\* the caller is qthread_exit).
C20_NoOtherReadyNoSwitch ==
    [][(/\ SchedulerCall
        /\ current # NULL
        /\ OtherReady(current, state', next) = {})
       => (/\ current' = current
           /\ running' = running
           /\ thread_list' = thread_list
           /\ next' = next
           /\ context' = context
           /\ pc'[running] \in ReturnPoints
           /\ \A r \in Recs \ {running} :
                 state'[r] = state[r] /\ pc'[r] = pc[r]
           /\ state'[running] \in {state[running], "FINISHED"}
           /\ (state'[running] = "FINISHED") = (pc'[running] \in {"exitret", "wrapret"}))]_vars

\* The only registered thread yielded and went on running (current READY),
\* then called qthread_exit, which returned to it (current not READY).
C20_Witness ==
    \E t \in Workers :
        /\ Reg = {t}
        /\ nalloc = 1
        /\ running = t
        /\ current = t
        /\ yields[t] >= 1
        /\ pc[t] = "exitret"
        /\ state[t] = "FINISHED"

\* The records met by a traversal from the head, in the order met.
RECURSIVE Walk(_, _, _, _)
Walk(r, tl, nx, fuel) ==
    IF r = NULL \/ fuel = 0 THEN <<>>
    ELSE <<r>> \o (IF nx[r] = tl THEN <<>> ELSE Walk(nx[r], tl, nx, fuel - 1))

Traversal == Walk(thread_list, thread_list, next, MaxThreads + 1)

\* Records are numbered in the order of their creation.
InCreationOrder(w) ==
    \A i, j \in 1..Len(w) : i < j => w[i] < w[j]

\* The part of C21 that is local to the call: the new record is READY, the
\* head is kept (or is the new record), the new record points to the head
\* and is the last one met, and the records met are in creation order.
C21_TailInsertion ==
    [][createret' = CreateOk
       => (/\ state'[nalloc'] = "READY"
           /\ thread_list' = (IF thread_list = NULL THEN nalloc' ELSE thread_list)
           /\ next'[nalloc'] = thread_list'
           /\ Traversal' = Append(Traversal, nalloc')
           /\ InCreationOrder(Traversal'))]_vars

\* C21 - A successful qthread_create produces a READY record at the tail of
\* the registry: the head is unchanged (or is the new record when the
\* registry was empty), the new record's next is the head, and a traversal
\* from the head visits the not yet joined records in creation order.
C21_CreateAtTail ==
    [][createret' = CreateOk
       => (/\ state'[nalloc'] = "READY"
           /\ thread_list' = (IF thread_list = NULL THEN nalloc' ELSE thread_list)
           /\ next'[nalloc'] = thread_list'
           /\ InCreationOrder(Traversal')
           /\ LiveRecs' \subseteq Reg')]_vars

\* C22 - Whenever current is not NULL it refers to a record that is still
\* a member of the registry (not unregistered, not freed by a join), and the
\* scan of qscheduler from current->next is back at current within one lap.
\* (It holds as long as joins are called by the host only; a thread
\* function can call qthread_join as well.)
C22_CurrentRegistered ==
    current # NULL
    => (/\ current \in Reg
        /\ current \notin joined
        /\ stack[current] # "freed"
        /\ StepsTo(next[current], current, next, MaxThreads + 1)
              < Cardinality(Reg))

\* ------------------------------------------------ fair specification
\* The single flow of control keeps executing: some step is taken whenever
\* one is possible.
FairSpec == Spec /\ WF_vars(Next)

\* ------------------------------------- specification with stack sizes
\* The host also calls qthread_set_stacksize.
NextSize ==
    \/ Next
    \/ \E size \in StackSizes : HostSetStacksize(size)

SizeSpec == Init /\ [][NextSize]_vars

\* ------------------------------ specification with joins by the threads
\* Every behaviour of Spec, and those in which thread functions call
\* qthread_join too.
NextJoin ==
    \/ Next
    \/ \E t \in Workers : \E u \in Workers : ThreadJoinCall(t, u)
    \/ \E t \in Workers : ThreadJoinWait(t)
    \/ \E t \in Workers : ThreadJoinFinish(t)

JoinSpec == Init /\ [][NextJoin]_vars

====
